---- MODULE Spec2Model ----
(***************************************************************************)
(* The tiered cache-and-fetch orchestrator of src/main.py (a Telegram      *)
(* music bot): the Delivery Cache `cache`, the Local Artifact Cache        *)
(* `file_cache`, the read path send_cached_track, the fetch path           *)
(* download_and_send_track, the playlist pipeline download_playlist_tracks *)
(* and the expiry sweeper cleanup_old_files.                               *)
(*                                                                         *)
(* Scheduling.  The bot runs on one asyncio event loop and the Application *)
(* is built with the default concurrent_updates = False, so one update     *)
(* handler runs at a time (process 0 below).  Code between two awaits is   *)
(* atomic; at an await the sweeper task, the clock, the file system and    *)
(* (inside asyncio.gather) the sibling download tasks (processes 1..N) may *)
(* run.  Each action below is the code from one await to the next, and     *)
(* every await of the handler is a value of pc[0].  A fetch runs in a      *)
(* thread of the default executor, beside the loop: the thread's write of  *)
(* the file is a step of its own (FileWritten).  The tasks of a gather     *)
(* start one by one, in the order of the list (TaskStart).                 *)
(*                                                                         *)
(* Abstractions.  A content key is a small integer.  The file of a key is  *)
(* the path temp_<key>.mp3; `disk` is the set of such paths that exist.    *)
(* What the transport returns from a send (file_id, chat_id, message_id)   *)
(* is one receipt number drawn from Receipts.  Time is in whole seconds.   *)
(* Durations are carried by the code but decide nothing.  Of the titles    *)
(* one thing matters: whether they can be encoded as UTF-8 (`titles`).     *)
(***************************************************************************)
EXTENDS Integers, Sequences, FiniteSets, TLC

\* ---- bounds of the model
NumKeys == 1        \* keys a single-video request may name: 1..NumKeys
NumTracks == 6      \* tracks of the playlist: keys 1..NumTracks
MaxReceipt == 2     \* receipts the transport may return: 1..MaxReceipt
MaxTicks == 3       \* clock advances in one behaviour

\* ---- program constants
CACHE_DURATION_HOURS == 1
MAX_CONCURRENT == 5

Keys == 1..NumKeys
Receipts == 1..MaxReceipt
\* In the playlist specification every send returns the same receipt: what
\* a send returns decides nothing there.
BatchReceipts == {1}
TTL == CACHE_DURATION_HOURS * 3600
\* The clock advances by a second or by a second less than the TTL, which
\* reaches the ages TTL-1, TTL and TTL+1 within MaxTicks advances.
TickSteps == {1, TTL - 1}
Playlist == [i \in 1..NumTracks |-> i]
Tasks == 1..NumTracks
FetchOutcomes == {"ok", "error"}

VARIABLES
    cache,            \* dict video_id -> [file_id, message_id]
    file_cache,       \* dict video_id -> [file_path, timestamp]
    cache_json,       \* contents of CACHE_FILE
    file_cache_json,  \* contents of FILE_CACHE_FILE
    disk,             \* the temp_<id>.mp3 files that exist
    now,              \* datetime.now().timestamp(), in seconds
    ticks,            \* clock advances so far
    pc,               \* pc[0]: the await the update handler stands at;
                      \* pc[t]: the await download task t stands at
    mode,             \* "single" (handle_single_video) or "playlist"
    video_id,         \* the key the handler's send_cached_track /
                      \* download_and_send_track call is about
    tracks, cached_tracks, to_download,  \* handle_message's lists
    ci,               \* position of send_cached_playlist_tracks' loop
    semaphore,        \* _value of asyncio.Semaphore(MAX_CONCURRENT)
    lock,             \* _locked of the asyncio.Lock
    lock_waiters,     \* _waiters of the asyncio.Lock, first come first
    completed,        \* completed["count"]
    notices,          \* the counts at which a progress edit was triggered
    stages,           \* the collaborator calls finished so far by the
                      \* handler's call in progress, each with its result
    handle,           \* what the handler's last send returned (0: nothing)
    outcome,          \* how the handler's last call, or the playlist
                      \* request, ended
    again,            \* the single request in progress (or just ended)
                      \* directly follows one for the same key; "delivered"
                      \* when that one delivered, "failed" when it did not
    miss0,            \* the key of the handler's call in progress (or just
                      \* ended) was in neither table when the call began
    sent,             \* keys delivered by the handler in this request
    advised,          \* keys for which this request sent the requester the
                      \* error text of handle_single_video (454)
    io,               \* what a write of a json file does in this run
    rm,               \* what os.remove does in this run
    limit,            \* what MAX_CONCURRENT (30) is in this run: the int 5,
                      \* or a str when the variable is set in the environment
    titles            \* what the titles that yt-dlp returns are in this run

tables == <<cache, file_cache, cache_json, file_cache_json>>
store == <<cache, file_cache, cache_json, file_cache_json, disk>>
clock == <<now, ticks>>
env == <<io, rm, limit, titles>>
lists == <<tracks, cached_tracks, to_download>>
gather == <<semaphore, lock, lock_waiters, completed, notices>>
ctl == <<pc, video_id, ci, stages, handle, outcome, miss0, sent>>
vars == <<cache, file_cache, cache_json, file_cache_json, disk, now, ticks,
          pc, mode, video_id, tracks, cached_tracks, to_download, ci,
          semaphore, lock, lock_waiters, completed, notices, stages, handle,
          outcome, again, miss0, sent, advised, io, rm, limit, titles>>

\* ---- dictionaries (Python dict: membership is `k \in DOMAIN d`)
Put(d, k, v) == [x \in DOMAIN d \cup {k} |-> IF x = k THEN v ELSE d[x]]
Pop(d, k) == [x \in DOMAIN d \ {k} |-> d[x]]
EmptyDict == [x \in {} |-> 0]

\* f"temp_{video_id}.mp3"
TempFile(id) == <<"temp", id, "mp3">>

\* The directory of the json files in this run: every write succeeds; every
\* open() for writing fails (no permission); or the space is limited: it
\* holds the text of the empty table, "{}", and not the text of a table with
\* an entry, so that a write succeeds or is cut short according to what is
\* written.
IoStates == {"ok", "open_fails", "limited"}

\* What os.getenv("MAX_CONCURRENT", 5) may give (30).
LimitTypes == {"int", "str"}

\* What os.remove of a temp file may do: remove it, or raise OSError.
RmStates == {"ok", "fails"}

\* The titles of a run: text that can be encoded as UTF-8, or text with a
\* lone surrogate (yt-dlp returns what the site's json holds).
TitleKinds == {"text", "lone_surrogate"}

\* msg.reply_audio(..., title=truncate_title(title), ...) (273-279,
\* 313-319) sends the title as UTF-8 text of the request: with a title
\* that cannot be encoded the call raises.
Encodable == titles = "text"

\* A json file cut short between two characters: no table.
Truncated == [x \in {0} |-> "truncated"]

\* A json file cut short inside the bytes of a character: no text.
TruncatedInChar == [x \in {0} |-> "truncated in a character"]

\* json.dump(data, f, indent=2, ensure_ascii=False) into a file opened with
\* encoding="utf-8" (89-90) raises UnicodeEncodeError when it reaches a
\* title with a lone surrogate.  It is no IOError: save_json_file does not
\* catch it (91) and the caller is left with the exception.  Where the
\* space is limited and ends in the text before the title, the close of the
\* file raises OSError in its place, which is caught and printed: the call
\* returns.  The value is the set of what a save of the table may do: TRUE
\* is "raises".  Every entry of a run's tables carries a title of the run's
\* kind.
save_raises(data) ==
    IF titles = "lone_surrogate" /\ data # EmptyDict
      THEN IF io = "ok" THEN {TRUE}
           ELSE IF io = "limited" THEN {TRUE, FALSE}
           ELSE {FALSE}
      ELSE {FALSE}

\* save_json_file (86-92): json.dump of the whole table over the previous
\* file.  An IOError is printed and not raised.  The value is the set of
\* contents the file may have afterwards:
\*   open() fails: the file is as it was;
\*   json.dump reaches a title it cannot encode: open() has emptied the
\*     file and the text ends before that title, or earlier where the
\*     space ends, between two characters;
\*   the space is limited: "{}" is written whole; the text of a table
\*     with an entry is cut where the space ends, between two characters
\*     or inside the bytes of one.  Which of the two depends on the bytes
\*     of the table written, and differs between the two files and between
\*     two writes of one run.
save_json_file(old, data) ==
    IF io = "open_fails" THEN {old}
    ELSE IF TRUE \in save_raises(data) THEN {Truncated}
    ELSE IF io = "ok" THEN {data}
    ELSE IF data = EmptyDict THEN {data}
    ELSE {Truncated, TruncatedInChar}

\* load_json_file (75-83): the table in the file; {} when there is no file
\* or its text is no json (JSONDecodeError is caught).
load_json_file(contents) == IF contents = Truncated THEN EmptyDict ELSE contents

\* json.load of a file whose bytes are no UTF-8 text raises
\* UnicodeDecodeError, which load_json_file does not catch (81).
load_raises(contents) == contents = TruncatedInChar

\* "if os.path.exists(file_path): os.remove(file_path)" inside a try whose
\* except swallows the error (121-127, 343-347): the files afterwards.
Remove(d, f) == IF rm = "ok" THEN d \ {f} ELSE d

\* The entry built from what a send returned.
CacheEntry(r) == [file_id |-> r, message_id |-> r]
FileEntry(id) == [file_path |-> TempFile(id), timestamp |-> now]

\* Faulty variant of AgeFresh: the age in seconds is compared with the hours.
AgeFresh_Seconds(timestamp) == (now - timestamp) < CACHE_DURATION_HOURS

\* age_hours < CACHE_DURATION_HOURS, age_hours = (now - timestamp) / 3600
AgeFresh(timestamp) == (now - timestamp) < CACHE_DURATION_HOURS * 3600

\* Faulty variant of Expired: an entry of age exactly the TTL is expired too.
Expired_Inclusive(timestamp) == timestamp <= now - (CACHE_DURATION_HOURS * 3600)

\* data.get("timestamp", 0) < cutoff_time
Expired(timestamp) == timestamp < now - (CACHE_DURATION_HOURS * 3600)

Stage(op, ok) == <<op, ok>>

\* No request in progress and no task.
AtRest == [p \in {0} \cup Tasks |-> IF p = 0 THEN "idle" ELSE "none"]

\* No process: main has ended with the exception of load_cache().
Down == [p \in {0} \cup Tasks |-> IF p = 0 THEN "down" ELSE "none"]

\* main after load_cache() and before asyncio.run(run()) (562-580): the
\* tables are loaded, no sweeper and no handler yet.
InMain == [p \in {0} \cup Tasks |-> IF p = 0 THEN "main" ELSE "none"]

\* main after load_cache(): no handler, no task, the locals of no call.
Quiet ==
    /\ pc = InMain
    /\ mode = "single" /\ video_id = 0
    /\ tracks = <<>> /\ cached_tracks = <<>> /\ to_download = <<>>
    /\ ci = 0
    /\ semaphore = 0 /\ lock = FALSE /\ lock_waiters = <<>>
    /\ completed = 0 /\ notices = <<>>
    /\ stages = <<>> /\ handle = 0 /\ outcome = "none"
    /\ again = "no" /\ miss0 = FALSE
    /\ sent = <<>>
    /\ advised = <<>>

Start ==
    /\ cache = EmptyDict /\ file_cache = EmptyDict
    /\ cache_json = EmptyDict /\ file_cache_json = EmptyDict
    /\ disk = {}
    /\ now = 0 /\ ticks = 0
    /\ Quiet

\* The state after load_cache() (561) on the first start, with no json file
\* yet, in a directory where files can be written and removed, with
\* MAX_CONCURRENT not set in the environment and titles that are UTF-8 text.
Init == Start /\ io = "ok" /\ rm = "ok" /\ limit = "int" /\ titles = "text"

\* ---- the process ends at an await and the bot is started again: main
\* (558-561) calls load_cache(), which reads the two tables from the json
\* files (95-100).  The temp files are where they were.  When the read of
\* either file raises, main ends there and no bot runs.  Otherwise main goes
\* on to build the application (562-572).
Restart ==
    /\ pc[0] # "sct"
    /\ IF load_raises(cache_json) \/ load_raises(file_cache_json)
         THEN /\ pc' = Down
              /\ cache' = EmptyDict
              /\ file_cache' = EmptyDict
         ELSE /\ pc' = InMain
              /\ cache' = load_json_file(cache_json)
              /\ file_cache' = load_json_file(file_cache_json)
    /\ mode' = "single" /\ video_id' = 0
    /\ tracks' = <<>> /\ cached_tracks' = <<>> /\ to_download' = <<>>
    /\ ci' = 0
    /\ semaphore' = 0 /\ lock' = FALSE /\ lock_waiters' = <<>>
    /\ completed' = 0 /\ notices' = <<>>
    /\ stages' = <<>> /\ handle' = 0 /\ outcome' = "none"
    /\ again' = "no" /\ miss0' = FALSE
    /\ sent' = <<>>
    /\ advised' = <<>>
    /\ UNCHANGED <<cache_json, file_cache_json, disk, clock, env>>

\* ---- run() (574-580): the sweeper task is created and polling begins.
run ==
    /\ pc[0] = "main"
    /\ pc' = AtRest
    /\ UNCHANGED <<store, clock, env, mode, lists, gather, video_id, ci,
                   stages, handle, outcome, miss0, again, sent, advised>>

\* The key process p works on.
KeyOf(p) == IF p = 0 THEN video_id ELSE to_download[p]

Delivered == {"delivery", "local", "fetched"}

\* ---- the writes of the two tables, each followed by its save.
\* Faulty variant of EvictDelivery: the entry is kept when both sends failed.
EvictDelivery_Keep(id) == UNCHANGED <<cache, cache_json>>

\* cache.pop(video_id, None); save_cache() (257-258)
EvictDelivery(id) ==
    /\ cache' = Pop(cache, id)
    /\ cache_json' \in save_json_file(cache_json, cache')

\* Faulty variant of BackfillDelivery: the local send does not write the table.
BackfillDelivery_Skip(id, r) == UNCHANGED <<cache, cache_json>>

\* cache[video_id] = {...}; save_cache() (282-288)
BackfillDelivery(id, r) ==
    /\ cache' = Put(cache, id, CacheEntry(r))
    /\ cache_json' \in save_json_file(cache_json, cache')

\* Faulty variant of EvictLocal: the entry is removed and the table not saved.
EvictLocal_NoSave(id) ==
    /\ file_cache' = Pop(file_cache, id)
    /\ UNCHANGED file_cache_json

\* file_cache.pop(video_id, None); save_file_cache() (294-295)
EvictLocal(id) ==
    /\ file_cache' = Pop(file_cache, id)
    /\ file_cache_json' \in save_json_file(file_cache_json, file_cache')

\* Faulty variants of CacheBoth: only one of the two tables is written.
CacheBoth_DeliveryOnly(id, r) ==
    /\ cache' = Put(cache, id, CacheEntry(r))
    /\ cache_json' \in save_json_file(cache_json, cache')
    /\ UNCHANGED <<file_cache, file_cache_json>>

CacheBoth_LocalOnly(id, r) ==
    /\ file_cache' = Put(file_cache, id, FileEntry(id))
    /\ file_cache_json' \in save_json_file(file_cache_json, file_cache')
    /\ UNCHANGED <<cache, cache_json>>

\* Faulty variant of CacheBoth: a write of cache.json that fails ends the
\* call before file_cache is written.
CacheBoth_AbortOnSaveFailure(id, r) ==
    /\ cache' = Put(cache, id, CacheEntry(r))
    /\ cache_json' \in save_json_file(cache_json, cache')
    /\ file_cache' = IF cache_json' = cache'
                       THEN Put(file_cache, id, FileEntry(id))
                       ELSE file_cache
    /\ file_cache_json' \in save_json_file(file_cache_json, file_cache')

\* "Cache in both systems" (321-336)
CacheBoth(id, r) ==
    /\ cache' = Put(cache, id, CacheEntry(r))
    /\ cache_json' \in save_json_file(cache_json, cache')
    /\ file_cache' = Put(file_cache, id, FileEntry(id))
    /\ file_cache_json' \in save_json_file(file_cache_json, file_cache')

\* Faulty variant of AfterCached: the request goes on whatever was returned.
AfterCached_NoReturn(delivered) == "status"

\* handle_single_video (445-448): "if await send_cached_track(...): return",
\* otherwise the await of msg.reply_text("Downloading...").
AfterCached(delivered) == IF delivered THEN "idle" ELSE "status"

\* ---- return of send_cached_track(id) to its caller, m the handler it
\* runs in.  handle_single_video (445-448): True ends the request, False
\* goes on to the status message.
\* send_cached_playlist_tracks (459-461): the loop goes on to the next
\* cached track whatever was returned; after the last one handle_message
\* goes on to the edit before the downloads (543-544) or, with nothing to
\* download, to status.delete() (550).
Returned(m, id, sn, delivered, how, st) ==
    /\ outcome' = how
    /\ sent' = IF delivered THEN Append(sn, id) ELSE sn
    /\ IF m = "single"
         THEN /\ pc' = [pc EXCEPT ![0] = AfterCached(delivered)]
              /\ stages' = IF delivered THEN <<>> ELSE st
              /\ video_id' = id
              /\ UNCHANGED ci
         ELSE /\ stages' = <<>>
              /\ IF ci < Len(cached_tracks)
                   THEN /\ ci' = ci + 1
                        /\ video_id' = cached_tracks[ci + 1]
                        /\ pc' = [pc EXCEPT ![0] = "sct"]
                   ELSE /\ pc' = [pc EXCEPT ![0] =
                                IF to_download # <<>> THEN "edit" ELSE "delete"]
                        /\ UNCHANGED <<video_id, ci>>

\* ---- send_cached_track, the file cache part (260-297) up to its await.
TryFileCache(m, id, sn, st) ==
    LET has == id \in DOMAIN file_cache
        exists == has /\ file_cache[id].file_path \in disk
        fresh == exists /\ AgeFresh(file_cache[id].timestamp)
    IN  IF fresh
          THEN /\ pc' = [pc EXCEPT ![0] = "filesend"]
               /\ stages' = st
               /\ outcome' = "none"
               /\ video_id' = id
               /\ sent' = sn
               /\ UNCHANGED <<file_cache, file_cache_json, ci>>
          ELSE /\ IF exists
                    THEN EvictLocal(id)
                    ELSE UNCHANGED <<file_cache, file_cache_json>>
               /\ Returned(m, id, sn, FALSE, "miss",
                           Append(st, Stage("file", FALSE)))

\* ---- send_cached_track(id) from its entry to its first await (236-247).
EnterCached(m, id, sn) ==
    /\ handle' = 0
    /\ miss0' = (id \notin DOMAIN cache /\ id \notin DOMAIN file_cache)
    /\ IF id \in DOMAIN cache
         THEN /\ pc' = [pc EXCEPT ![0] = "forward"]
              /\ stages' = <<>>
              /\ outcome' = "none"
              /\ video_id' = id
              /\ sent' = sn
              /\ UNCHANGED <<file_cache, file_cache_json, ci>>
         ELSE TryFileCache(m, id, sn, <<>>)
    /\ UNCHANGED <<cache, cache_json, disk, clock, env, lists, gather>>

\* ---- a request for one video arrives: handle_message (507-508) calls
\* handle_single_video, which calls send_cached_track (445).
StartSingle(k) ==
    /\ pc[0] = "idle"
    /\ mode' = "single"
    /\ again' = IF mode = "single" /\ video_id = k /\ outcome \in Delivered
                  THEN "delivered"
                  ELSE IF mode = "single" /\ video_id = k /\ outcome = "failed"
                  THEN "failed"
                  ELSE "no"
    /\ advised' = <<>>
    /\ EnterCached("single", k, <<>>)

\* ---- send_cached_playlist_tracks calls send_cached_track for the next
\* cached track (459-461).
SendCachedTrack ==
    /\ pc[0] = "sct"
    /\ EnterCached("playlist", video_id, sent)
    /\ UNCHANGED <<mode, again, advised>>

\* ---- context.bot.forward_message returns or raises (241-250).
ForwardDone(ok) ==
    /\ pc[0] = "forward"
    /\ IF ok
         THEN Returned(mode, video_id, sent, TRUE, "delivery",
                       Append(stages, Stage("forward", TRUE)))
         ELSE /\ pc' = [pc EXCEPT ![0] = "blob"]
              /\ stages' = Append(stages, Stage("forward", FALSE))
              /\ UNCHANGED <<video_id, ci, outcome, sent>>
    /\ UNCHANGED <<store, clock, env, mode, lists, gather, handle, miss0,
                   again, advised>>

\* ---- msg.reply_audio(audio=cached["file_id"]) returns or raises (251-258).
BlobDone(ok) ==
    /\ pc[0] = "blob"
    /\ IF ok
         THEN /\ Returned(mode, video_id, sent, TRUE, "delivery",
                          Append(stages, Stage("blob", TRUE)))
              /\ UNCHANGED <<cache, cache_json, file_cache, file_cache_json>>
         ELSE /\ EvictDelivery(video_id)
              /\ TryFileCache(mode, video_id, sent,
                              Append(stages, Stage("blob", FALSE)))
    /\ UNCHANGED <<disk, clock, env, mode, lists, gather, handle, miss0,
                   again, advised>>

\* ---- msg.reply_audio(audio=f) of the local file returns r or raises
\* (271-291).
FileSendDone(ok, r) ==
    /\ pc[0] = "filesend"
    /\ ok => Encodable
    /\ IF ok
         THEN /\ BackfillDelivery(video_id, r)
              /\ handle' = r
              /\ Returned(mode, video_id, sent, TRUE, "local",
                          Append(stages, Stage("file", TRUE)))
         ELSE /\ Returned(mode, video_id, sent, FALSE, "miss",
                          Append(stages, Stage("file", FALSE)))
              /\ UNCHANGED <<cache, cache_json, handle>>
    /\ UNCHANGED <<file_cache, file_cache_json, disk, clock, env, mode, lists,
                   gather, miss0, again, advised>>

\* ---- handle_single_video: msg.reply_text("Downloading...") returns or
\* raises (448).  The await is outside the try: a raise ends the request
\* with no fetch and no error text; otherwise download_and_send_track is
\* called and awaits the fetch (449, 306).
StatusDone(ok) ==
    /\ pc[0] = "status"
    /\ IF ok
         THEN /\ pc' = [pc EXCEPT ![0] = "fetch"]
              /\ UNCHANGED stages
         ELSE /\ pc' = [pc EXCEPT ![0] = "idle"]
              /\ stages' = <<>>
    /\ UNCHANGED <<store, clock, env, mode, lists, gather, video_id, ci,
                   handle, outcome, miss0, again, sent, advised>>

\* Semaphore._wake_up_next: the first waiter not yet woken is woken and the
\* permit is taken for it.
wake_up_next(pcs, s) ==
    IF \E q \in Tasks : pcs[q] = "queued"
      THEN LET q == CHOOSE q \in Tasks :
                        /\ pcs[q] = "queued"
                        /\ \A o \in 1..(q - 1) : pcs[o] # "queued"
           IN  <<[pcs EXCEPT ![q] = "woken"], s - 1>>
      ELSE <<pcs, s>>

\* Semaphore.release: the count goes up and the next waiter is woken.  The
\* value is the pair of the tasks' positions and the count afterwards.
release(pcs, s) == wake_up_next(pcs, s + 1)

\* Faulty variant of ProgressDue: a progress edit on every second count.
ProgressDue_EverySecond(count) == count % 2 = 0

\* if completed["count"] % 3 == 0 (478)
ProgressDue(count) == count % 3 = 0

\* ---- download_with_semaphore with the lock taken (476-484): the counter
\* is incremented, and every third count starts a progress edit, awaited
\* with the lock held; otherwise the lock and the permit are released.
CountUnderLock(t) ==
    /\ completed' = completed + 1
    /\ IF ProgressDue(completed')
         THEN /\ lock' = TRUE
              /\ notices' = Append(notices, completed')
              /\ pc' = [pc EXCEPT ![t] = "notify"]
              /\ UNCHANGED semaphore
         ELSE /\ lock' = FALSE
              /\ LET rel == release([pc EXCEPT ![t] = "ok"], semaphore)
                 IN  pc' = rel[1] /\ semaphore' = rel[2]
              /\ UNCHANGED notices

\* Faulty variant of ReleaseOnError: the permit of a failed task is not given back.
ReleaseOnError_Leak(pcs, s) == <<pcs, s>>

\* "async with semaphore" left by a failed task (473, 485-486): the
\* exception is printed and the permit is given back.
ReleaseOnError(pcs, s) == release(pcs, s)

\* ---- return of download_and_send_track to its caller.
\* handle_single_video (449-454): a success goes on to status.delete(), an
\* exception to the edit of the status message to the error text.
\* download_with_semaphore (473-486): a success goes on to the lock, which
\* is taken at once when it is free and nobody waits for it
\* (asyncio.Lock.acquire); an exception is printed and the permit released.
DownloadEnd(p, ok, r) ==
    IF p = 0
      THEN /\ pc' = [pc EXCEPT ![0] = IF ok THEN "delete" ELSE "errtext"]
           /\ outcome' = IF ok THEN "fetched" ELSE "failed"
           /\ stages' = <<>>
           /\ handle' = r
           /\ sent' = IF ok THEN Append(sent, video_id) ELSE sent
           /\ UNCHANGED gather
      ELSE /\ IF ok
                THEN IF lock \/ lock_waiters # <<>>
                       THEN /\ pc' = [pc EXCEPT ![p] = "lockwait"]
                            /\ lock_waiters' = Append(lock_waiters, p)
                            /\ UNCHANGED <<semaphore, lock, completed, notices>>
                       ELSE /\ CountUnderLock(p)
                            /\ UNCHANGED lock_waiters
                ELSE /\ LET rel == ReleaseOnError([pc EXCEPT ![p] = "failed"],
                                                  semaphore)
                        IN  pc' = rel[1] /\ semaphore' = rel[2]
                     /\ UNCHANGED <<lock, lock_waiters, completed, notices>>
           /\ UNCHANGED <<outcome, stages, handle, sent>>

\* Faulty variant of Cleanup: the file is left where it is.
Cleanup_Keep(p, d) == d

\* ---- the except branch of download_and_send_track (339-348): the file
\* temp_<id>.mp3 is removed if it exists, an error of os.remove is
\* swallowed, and the exception is raised again.
Cleanup(p, d) == Remove(d, TempFile(KeyOf(p)))

\* Every task of the gather has run its first step.  asyncio runs the first
\* steps of the tasks, scheduled together by gather, before the callback of
\* any executor result or send.
Started == \A t \in Tasks : pc[t] # "unstarted"

\* ---- download_single_track, running in a thread of the executor for the
\* suspended coroutine (306, 219-233), writes temp_<id>.mp3.
FileWritten(p) ==
    /\ pc[p] = "fetch"
    /\ pc[0] # "sct"
    /\ pc' = [pc EXCEPT ![p] = "written"]
    /\ disk' = disk \cup {TempFile(KeyOf(p))}
    /\ UNCHANGED <<tables, clock, env, mode, video_id, lists, ci, gather,
                   stages, handle, outcome, miss0, again, sent, advised>>

\* ---- the result or the exception of download_single_track resumes the
\* coroutine (306-313).  "ok": a result came back, and the coroutine tests
\* whether the file exists (309) and goes on to the send; "error": the
\* thread raised, before or after it wrote the file.
FetchDone(p, o) ==
    /\ pc[p] \in {"fetch", "written"}
    /\ pc[0] # "sct"
    /\ Started
    /\ IF o = "ok" /\ TempFile(KeyOf(p)) \in disk
         THEN /\ pc' = [pc EXCEPT ![p] = "send"]
              /\ stages' = IF p = 0
                             THEN Append(stages, Stage("fetch", TRUE))
                             ELSE stages
              /\ UNCHANGED <<disk, gather, handle, outcome, sent>>
         ELSE /\ disk' = Cleanup(p, disk)
              /\ DownloadEnd(p, FALSE, 0)
    /\ UNCHANGED <<tables, clock, env, mode, video_id, lists, ci, miss0,
                   again, advised>>

\* ---- msg.reply_audio(audio=f) of the downloaded file returns r or raises
\* (312-348); on success both tables are written and saved.
SendDone(p, ok, r) ==
    /\ pc[p] = "send"
    /\ pc[0] # "sct"
    /\ Started
    /\ ok => Encodable
    /\ IF ok
         THEN /\ CacheBoth(KeyOf(p), r)
              /\ DownloadEnd(p, TRUE, r)
              /\ UNCHANGED disk
         ELSE /\ disk' = Cleanup(p, disk)
              /\ DownloadEnd(p, FALSE, 0)
              /\ UNCHANGED tables
    /\ UNCHANGED <<clock, env, mode, video_id, lists, ci, miss0, again,
                   advised>>

\* ---- status.delete() returns or raises.  handle_single_video (451): the
\* await is inside the try, so a raise goes on to the error text although
\* the audio was delivered.  handle_message (550): it is followed by the
\* completion notice; a raise goes to the except (553-555).
DeleteDone(ok) ==
    /\ pc[0] = "delete"
    /\ pc' = IF ~ok THEN [pc EXCEPT ![0] = "errtext"]
             ELSE IF mode = "single" THEN AtRest
             ELSE [pc EXCEPT ![0] = "notice"]
    /\ UNCHANGED <<store, clock, env, mode, lists, gather, video_id, ci,
                   stages, handle, outcome, miss0, again, sent, advised>>

\* ---- status.edit_text(msg_err) returns or raises (454, 555) and the
\* request ends; a raise leaves the handler as an exception.
ErrTextDone(ok) ==
    /\ pc[0] = "errtext"
    /\ pc' = AtRest
    /\ IF mode = "single"
         THEN /\ advised' = IF ok THEN Append(advised, video_id) ELSE advised
              /\ UNCHANGED outcome
         ELSE /\ outcome' = IF ok THEN "error" ELSE "raised"
              /\ UNCHANGED advised
    /\ UNCHANGED <<store, clock, env, mode, lists, gather, video_id, ci,
                   stages, handle, miss0, again, sent>>

\* ---- cleanup_old_files (113-135), run by periodic_cleanup (138-142):
\* the file of every expired entry is removed if it exists, an OSError of
\* os.remove is printed, the entry is removed in either case, and the table
\* is saved when an entry was removed.
expired_ids == {id \in DOMAIN file_cache : Expired(file_cache[id].timestamp)}

RECURSIVE RemoveAll(_, _)
RemoveAll(d, fs) ==
    IF fs = {} THEN d
    ELSE LET f == CHOOSE f \in fs : TRUE
         IN  RemoveAll(Remove(d, f), fs \ {f})

cleanup_old_files ==
    /\ pc[0] \notin {"sct", "down", "main"}
    /\ disk' = RemoveAll(disk, {file_cache[id].file_path : id \in expired_ids})
    /\ file_cache' = [id \in DOMAIN file_cache \ expired_ids |-> file_cache[id]]
    /\ file_cache_json' \in IF expired_ids # {}
                               THEN save_json_file(file_cache_json, file_cache')
                               ELSE {file_cache_json}
    /\ UNCHANGED <<cache, cache_json, clock, env, mode, lists, gather, ctl,
                   again, advised>>

\* ---- the environment: time passes; a file is deleted from outside.
Tick(d) ==
    /\ pc[0] # "sct"
    /\ ticks < MaxTicks
    /\ now' = now + d
    /\ ticks' = ticks + 1
    /\ UNCHANGED <<store, env, mode, lists, gather, ctl, again, advised>>

DeleteFile(f) ==
    /\ f \in disk
    /\ pc[0] # "sct"
    /\ disk' = disk \ {f}
    /\ UNCHANGED <<tables, clock, env, mode, lists, gather, ctl, again,
                   advised>>

\* ---- a playlist request arrives: handle_message posts the status
\* message (510).
StartPlaylist ==
    /\ pc[0] = "idle"
    /\ pc' = [pc EXCEPT ![0] = "reply"]
    /\ mode' = "playlist"
    /\ tracks' = <<>> /\ cached_tracks' = <<>> /\ to_download' = <<>>
    /\ ci' = 0
    /\ sent' = <<>>
    /\ again' = "no"
    /\ stages' = <<>>
    /\ outcome' = "none"
    /\ advised' = <<>>
    /\ video_id' = 0 /\ handle' = 0 /\ miss0' = FALSE
    /\ UNCHANGED <<store, clock, env, gather>>

\* ---- msg.reply_text("Fetching playlist info...") returns or raises
\* (510).  The await is outside the try: a raise ends the request with no
\* error text; otherwise get_playlist_info is run in the executor (514).
ReplyDone(ok) ==
    /\ pc[0] = "reply"
    /\ IF ok
         THEN /\ pc' = [pc EXCEPT ![0] = "info"]
              /\ UNCHANGED outcome
         ELSE /\ pc' = AtRest
              /\ outcome' = "raised"
    /\ UNCHANGED <<store, clock, env, mode, lists, gather, video_id, ci,
                   stages, handle, miss0, again, sent, advised>>

InCaches(id) == id \in DOMAIN cache \/ id \in DOMAIN file_cache
NotInCaches(id) == ~InCaches(id)

\* Faulty variant of CachedOf: the cached tracks come out last first.
CachedOf_Reversed(tr) == LET q == SelectSeq(tr, InCaches) IN [i \in 1..Len(q) |-> q[Len(q) + 1 - i]]

\* cached_tracks = [t for t in tracks if ... in cache or ... in file_cache]
CachedOf(tr) == SelectSeq(tr, InCaches)

\* to_download = [t for t in tracks if ... not in cache and ... not in ...]
ToDownloadOf(tr) == SelectSeq(tr, NotInCaches)

\* ---- get_playlist_info returns tr or raises (514).  No track: the
\* status message is edited to say so (516-518).  Otherwise the tracks are
\* split into those in either table and the others (521-530), and the
\* status message is edited to the counts (532).
InfoDone(ok, tr) ==
    /\ pc[0] = "info"
    /\ IF ~ok
         THEN /\ pc' = [pc EXCEPT ![0] = "errtext"]
              /\ UNCHANGED lists
         ELSE IF tr = <<>>
         THEN /\ pc' = [pc EXCEPT ![0] = "notracks"]
              /\ UNCHANGED lists
         ELSE /\ pc' = [pc EXCEPT ![0] = "found"]
              /\ tracks' = tr
              /\ cached_tracks' = CachedOf(tr)
              /\ to_download' = ToDownloadOf(tr)
    /\ UNCHANGED <<store, clock, env, mode, gather, video_id, ci, stages,
                   handle, outcome, miss0, again, sent, advised>>

\* ---- status.edit_text("No tracks found...") returns, and the handler
\* returns, or raises (517-518).
NoTracksDone(ok) ==
    /\ pc[0] = "notracks"
    /\ IF ok
         THEN /\ pc' = AtRest
              /\ outcome' = "empty"
         ELSE /\ pc' = [pc EXCEPT ![0] = "errtext"]
              /\ UNCHANGED outcome
    /\ UNCHANGED <<store, clock, env, mode, lists, gather, video_id, ci,
                   stages, handle, miss0, again, sent, advised>>

\* ---- status.edit_text("Found ...") returns or raises (532); then the
\* cached tracks are sent, first to last (540, 459), and with no cached
\* track the edit before the downloads follows (543-544) or, with nothing
\* to download either, status.delete() (550).
FoundDone(ok) ==
    /\ pc[0] = "found"
    /\ IF ~ok
         THEN /\ pc' = [pc EXCEPT ![0] = "errtext"]
              /\ UNCHANGED <<ci, video_id>>
         ELSE IF cached_tracks # <<>>
         THEN /\ ci' = 1
              /\ video_id' = cached_tracks[1]
              /\ pc' = [pc EXCEPT ![0] = "sct"]
         ELSE /\ pc' = [pc EXCEPT ![0] =
                      IF to_download # <<>> THEN "edit" ELSE "delete"]
              /\ UNCHANGED <<ci, video_id>>
    /\ UNCHANGED <<store, clock, env, mode, lists, gather, stages, handle,
                   outcome, miss0, again, sent, advised>>

\* download_playlist_tracks up to its await of asyncio.gather (468-489):
\* one coroutine per track, none of them started.
StartTasks ==
    [p \in DOMAIN pc |->
        IF p = 0 THEN "gather"
        ELSE IF p > Len(to_download) THEN "none"
        ELSE "unstarted"]

\* ---- status.edit_text before the downloads returns or raises (543-548);
\* download_playlist_tracks then builds the semaphore, the counter and the
\* lock and awaits the gather of one task per track (466-489).
\* asyncio.Semaphore(MAX_CONCURRENT) raises TypeError when MAX_CONCURRENT
\* is a str (468).  That and a raise of the edit go to handle_message's
\* except (553-555).  What the last call of send_cached_track returned has
\* been dropped by the loop (459-461) and is forgotten here.
EditDone(ok) ==
    /\ pc[0] = "edit"
    /\ IF ok /\ limit = "int"
         THEN /\ pc' = StartTasks
              /\ semaphore' = MAX_CONCURRENT
              /\ lock' = FALSE
              /\ lock_waiters' = <<>>
              /\ completed' = 0
              /\ notices' = <<>>
              /\ video_id' = 0 /\ handle' = 0
              /\ outcome' = "none" /\ miss0' = FALSE
         ELSE /\ pc' = [pc EXCEPT ![0] = "errtext"]
              /\ UNCHANGED <<gather, video_id, handle, outcome, miss0>>
    /\ UNCHANGED <<store, clock, env, mode, lists, ci, stages, again, sent,
                   advised>>

\* Faulty variant of locked: the semaphore never makes a task wait.
locked_Never(pcs, s) == FALSE

\* Semaphore.locked: no permit is free, or a task waits for one.
locked(pcs, s) == s = 0 \/ \E q \in Tasks : pcs[q] \in {"queued", "woken"}

\* ---- the first step of a task, in the order of the list (473, 304):
\* "async with semaphore" takes a permit and download_and_send_track
\* starts the fetch in the executor, or the task waits on the semaphore.
TaskStart(t) ==
    /\ pc[t] = "unstarted"
    /\ \A q \in 1..(t - 1) : pc[q] # "unstarted"
    /\ IF locked(pc, semaphore)
         THEN /\ pc' = [pc EXCEPT ![t] = "queued"]
              /\ UNCHANGED semaphore
         ELSE /\ pc' = [pc EXCEPT ![t] = "fetch"]
              /\ semaphore' = semaphore - 1
    /\ UNCHANGED <<store, clock, env, mode, lists, video_id, ci, lock,
                   lock_waiters, completed, notices, stages, handle, outcome,
                   miss0, again, sent, advised>>

\* ---- a task woken on the semaphore runs (473): it holds the permit that
\* the release took for it, wakes the next waiter if the count is positive
\* (Semaphore.acquire) and starts its fetch.
Acquire(t) ==
    /\ pc[t] = "woken"
    /\ LET nxt == IF semaphore > 0
                    THEN wake_up_next([pc EXCEPT ![t] = "fetch"], semaphore)
                    ELSE <<[pc EXCEPT ![t] = "fetch"], semaphore>>
       IN  pc' = nxt[1] /\ semaphore' = nxt[2]
    /\ UNCHANGED <<store, clock, env, mode, lists, video_id, ci, lock,
                   lock_waiters, completed, notices, stages, handle, outcome,
                   miss0, again, sent, advised>>

\* ---- the first waiter on the lock, woken by its release, runs and takes
\* it (476, asyncio.Lock.acquire).
LockAcquired(t) ==
    /\ pc[t] = "lockwait"
    /\ lock_waiters # <<>> /\ t = Head(lock_waiters)
    /\ ~lock
    /\ lock_waiters' = Tail(lock_waiters)
    /\ CountUnderLock(t)
    /\ UNCHANGED <<store, clock, env, mode, lists, video_id, ci, stages,
                   handle, outcome, miss0, again, sent, advised>>

\* ---- the progress edit returns or raises, which is swallowed (479-484);
\* the lock and the permit are released.
NotifyDone(t) ==
    /\ pc[t] = "notify"
    /\ lock' = FALSE
    /\ LET rel == release([pc EXCEPT ![t] = "ok"], semaphore)
       IN  pc' = rel[1] /\ semaphore' = rel[2]
    /\ UNCHANGED <<store, clock, env, mode, lists, video_id, ci, lock_waiters,
                   completed, notices, stages, handle, outcome, miss0, again,
                   sent, advised>>

\* ---- asyncio.gather returns when every task has ended (489);
\* download_playlist_tracks returns, which ends its semaphore, counter and
\* lock, and handle_message goes on to status.delete() (550).
AllEnded == \A t \in 1..Len(to_download) : pc[t] \in {"ok", "failed"}

GatherDone ==
    /\ pc[0] = "gather"
    /\ AllEnded
    /\ pc' = [pc EXCEPT ![0] = "delete"]
    /\ semaphore' = 0 /\ lock' = FALSE /\ lock_waiters' = <<>>
    /\ completed' = 0 /\ notices' = <<>>
    /\ UNCHANGED <<store, clock, env, mode, lists, video_id, ci, stages,
                   handle, outcome, miss0, again, sent, advised>>

\* The number in the completion notice (551):
\* f"Playlist complete! Sent {len(tracks)} tracks."
CompletionNotice == Len(tracks)

\* ---- msg.reply_text("Playlist complete! ...") returns or raises (551).
NoticeDone(ok) ==
    /\ pc[0] = "notice"
    /\ IF ok
         THEN /\ pc' = AtRest
              /\ outcome' = "complete"
         ELSE /\ pc' = [pc EXCEPT ![0] = "errtext"]
              /\ UNCHANGED outcome
    /\ UNCHANGED <<store, clock, env, mode, lists, gather, video_id, ci,
                   stages, handle, miss0, again, sent, advised>>

Resolve ==
    \/ \E k \in Keys : StartSingle(k)
    \/ \E ok \in BOOLEAN : ForwardDone(ok)
    \/ \E ok \in BOOLEAN : BlobDone(ok)
    \/ \E ok \in BOOLEAN, r \in Receipts : FileSendDone(ok, r)
    \/ \E ok \in BOOLEAN : StatusDone(ok)
    \/ FileWritten(0)
    \/ \E o \in FetchOutcomes : FetchDone(0, o)
    \/ \E ok \in BOOLEAN, r \in Receipts : SendDone(0, ok, r)
    \/ \E ok \in BOOLEAN : DeleteDone(ok)
    \/ \E ok \in BOOLEAN : ErrTextDone(ok)

Next ==
    \/ Resolve
    \/ cleanup_old_files
    \/ \E d \in TickSteps : Tick(d)
    \/ Restart
    \/ run

\* Single-video requests, the sweeper, the clock and restarts of the bot.
Spec == Init /\ [][Next]_vars

\* What the event loop and the collaborators' timeouts guarantee in a
\* playlist request: main goes on to run(), a call that is awaited returns
\* or raises, and a task that can run is run.
Progress ==
    \/ run
    \/ \E t \in Tasks : TaskStart(t)
    \/ \E t \in Tasks : FileWritten(t)
    \/ \E t \in Tasks, o \in FetchOutcomes : FetchDone(t, o)
    \/ \E t \in Tasks, ok \in BOOLEAN, r \in BatchReceipts : SendDone(t, ok, r)
    \/ \E t \in Tasks : Acquire(t)
    \/ \E t \in Tasks : LockAcquired(t)
    \/ \E t \in Tasks : NotifyDone(t)
    \/ \E ok \in BOOLEAN : ReplyDone(ok)
    \/ \E ok \in BOOLEAN, tr \in {Playlist, <<>>} : InfoDone(ok, tr)
    \/ \E ok \in BOOLEAN : NoTracksDone(ok)
    \/ \E ok \in BOOLEAN : FoundDone(ok)
    \/ SendCachedTrack
    \/ \E ok \in BOOLEAN : ForwardDone(ok)
    \/ \E ok \in BOOLEAN : BlobDone(ok)
    \/ \E ok \in BOOLEAN, r \in BatchReceipts : FileSendDone(ok, r)
    \/ \E ok \in BOOLEAN : EditDone(ok)
    \/ GatherDone
    \/ \E ok \in BOOLEAN : DeleteDone(ok)
    \/ \E ok \in BOOLEAN : NoticeDone(ok)
    \/ \E ok \in BOOLEAN : ErrTextDone(ok)

Batch ==
    \/ StartPlaylist
    \/ Progress

\* The first start with MAX_CONCURRENT set in the environment or not.
BatchInit ==
    Start /\ io = "ok" /\ rm = "ok" /\ limit \in LimitTypes /\ titles = "text"

\* Playlist requests, one after the other, in one run of the bot and
\* within one TTL.
BatchSpec == BatchInit /\ [][Batch]_vars

BatchLive == BatchSpec /\ WF_vars(Progress)

\* The same as Spec in any directory (the writes of the json files succeed,
\* fail in open() or meet the end of the space; os.remove succeeds or
\* fails) and with titles of either kind, from the start on.
InitIO ==
    /\ Start
    /\ io \in IoStates /\ rm \in RmStates /\ limit = "int"
    /\ titles \in TitleKinds

SpecIO == InitIO /\ [][Next]_vars

NextFS ==
    \/ Next
    \/ \E f \in disk : DeleteFile(f)

\* The same with files deleted from outside the program.
SpecFS == Init /\ [][NextFS]_vars

\* The whole program: requests for single videos and for playlists, the
\* sweeper, the clock and restarts, in any directory and environment.  The
\* specifications above are its behaviours with requests of one kind.
InitAny ==
    /\ Start
    /\ io \in IoStates /\ rm \in RmStates /\ limit \in LimitTypes
    /\ titles \in TitleKinds

Program ==
    \/ Next
    \/ Batch

ProgramSpec == InitAny /\ [][Program]_vars

(***************************************************************************)
(* The claims.                                                             *)
(***************************************************************************)
ForwardFailed == Stage("forward", FALSE)
BlobFailed == Stage("blob", FALSE)
FileFailed == Stage("file", FALSE)

\* C1: a resolve of a key that was in neither table, whose fetch and send
\* both succeed, ends with an entry for the key in cache and an entry for
\* it in file_cache.
C1_FetchFillsBothCaches ==
    [][(miss0 /\ pc[0] = "send" /\ outcome' = "fetched")
         => (video_id \in DOMAIN cache' /\ video_id \in DOMAIN file_cache')]_vars

C1_Witness ==
    /\ pc[0] = "idle" /\ outcome = "fetched" /\ miss0
    /\ video_id \in DOMAIN cache /\ video_id \in DOMAIN file_cache

\* C2, as claimed: whenever a resolve directly follows a resolve of the same
\* key, it never invokes the external fetch and ends delivered from the
\* Delivery Cache.
C2_Original ==
    again # "no" =>
        /\ pc[0] \notin {"status", "fetch", "written", "send"}
        /\ pc[0] = "idle" => outcome = "delivery"

\* C2, amended: when a resolve that delivered key k is directly followed by
\* a resolve of k, the second starts with the Delivery Cache path (forward,
\* then the blob-handle send), and it invokes the external fetch only after
\* the forward, the blob-handle send and the Local Artifact Cache path have
\* all failed to deliver.
C2_Amended ==
    again = "delivered" =>
        /\ pc[0] \in {"blob", "filesend", "status", "fetch", "written", "send"}
              => (Len(stages) >= 1 /\ stages[1] = ForwardFailed)
        /\ pc[0] \in {"filesend", "status", "fetch", "written", "send"}
              => (Len(stages) >= 2 /\ stages[2] = BlobFailed)
        /\ pc[0] \in {"status", "fetch", "written", "send"}
              => (Len(stages) >= 3 /\ stages[3] = FileFailed)

C2_Witness ==
    again = "delivered" /\ pc[0] = "idle" /\ outcome = "delivery"

\* C3: while download_playlist_tracks runs, at most MAX_CONCURRENT tasks are
\* inside download_and_send_track (fetching or sending), and the tasks that
\* hold a permit and the free permits are MAX_CONCURRENT together.
Inside == {t \in Tasks : pc[t] \in {"fetch", "written", "send"}}
Holding ==
    {t \in Tasks : pc[t] \in {"woken", "fetch", "written", "send", "lockwait", "notify"}}

C3_BoundedConcurrency ==
    /\ Cardinality(Inside) <= MAX_CONCURRENT
    /\ pc[0] = "gather" =>
           (semaphore >= 0 /\ Cardinality(Holding) + semaphore = MAX_CONCURRENT)

C3_Witness ==
    /\ Len(to_download) > MAX_CONCURRENT
    /\ Cardinality(Inside) = MAX_CONCURRENT
    /\ \E t \in Tasks : pc[t] = "queued"

\* C4: a batch that was dispatched finishes and its request ends (the
\* handler is idle again and again), and the batch finishes only after every
\* dispatched resolution has ended, as a success or as a failure, with all
\* permits released; so every dispatched resolution ends.  The failure of
\* one does not stop another: a task that has ended is left as it ended
\* while the others run.
Ended(t) == pc[t] \in {"ok", "failed"}

C4_BatchCompletion ==
    /\ []<>(pc[0] = "idle")
    /\ [][(pc[0] = "gather" /\ pc'[0] # "gather")
            => (AllEnded /\ semaphore = MAX_CONCURRENT)]_vars
    /\ [][\A t \in Tasks : (Ended(t) /\ pc'[0] = "gather") => pc'[t] = pc[t]]_vars

C4_Witness ==
    /\ pc[0] = "gather" /\ AllEnded /\ semaphore = MAX_CONCURRENT
    /\ Len(to_download) > MAX_CONCURRENT
    /\ \E t \in Tasks : pc[t] = "failed"
    /\ \E t \in Tasks : pc[t] = "ok"

\* C5: the cached tracks of a playlist are delivered in the order of the
\* playlist, and no track to download is dispatched before the last attempt
\* on a cached track has ended.  (The playlist lists the keys in rising
\* order, so its order is the order of the keys.)
C5_BatchOrdering ==
    mode = "playlist" =>
        /\ \A i, j \in DOMAIN sent : i < j => sent[i] < sent[j]
        /\ \A i \in DOMAIN sent :
               \E j \in DOMAIN cached_tracks : cached_tracks[j] = sent[i]
        /\ (\E t \in Tasks : pc[t] # "none")
               => (/\ pc[0] \in {"gather", "delete", "notice", "errtext"}
                   /\ ci = Len(cached_tracks))

C5_Witness ==
    /\ mode = "playlist" /\ Len(sent) >= 2
    /\ \E t \in Tasks : pc[t] = "fetch"
    /\ \E t \in Tasks : pc[t] = "queued" \/ Len(to_download) >= 2

\* C6: when send_cached_track delivers from the local file, cache then holds
\* for the key the entry built from what that send returned.
C6_LocalHitBackfills ==
    [][(pc[0] = "filesend" /\ outcome' = "local")
         => /\ handle' \in Receipts
            /\ video_id \in DOMAIN cache'
            /\ cache'[video_id] = CacheEntry(handle')
            /\ cache_json' = cache']_vars

C6_Witness ==
    /\ pc[0] = "idle" /\ outcome = "local" /\ handle \in Receipts
    /\ video_id \in DOMAIN cache /\ cache[video_id] = CacheEntry(handle)

\* The step in which send_cached_track looks the key up in file_cache: its
\* entry with the key in no cache entry, or the failure of the blob send.
FileStageStep ==
    /\ pc[0] \in {"idle", "blob"}
    /\ pc'[0] \in {"filesend", "status"}

\* C7, as claimed: a lookup that finds an entry whose file is gone removes
\* the entry and reports a miss.
C7_MissingFileEvicts ==
    [][(/\ FileStageStep
        /\ video_id' \in DOMAIN file_cache
        /\ file_cache[video_id'].file_path \notin disk)
         => (video_id' \notin DOMAIN file_cache' /\ pc'[0] = "status")]_vars

\* C8: on the read path an entry whose file exists and whose age is TTL + 1
\* seconds is a miss and one whose age is TTL - 1 seconds is a hit; and the
\* sweeper removes no entry whose age is below the TTL.
C8_TtlBoundary ==
    /\ [][(/\ FileStageStep
           /\ video_id' \in DOMAIN file_cache
           /\ file_cache[video_id'].file_path \in disk)
            => LET age == now - file_cache[video_id'].timestamp
               IN  /\ age = TTL + 1 => pc'[0] = "status"
                   /\ age = TTL - 1 => pc'[0] = "filesend"]_vars
    /\ [][(pc' = pc /\ outcome' = outcome)
            => \A id \in DOMAIN file_cache \ DOMAIN file_cache' :
                   ~(now - file_cache[id].timestamp < TTL)]_vars

C8_Witness ==
    /\ pc[0] = "filesend"
    /\ video_id \in DOMAIN file_cache
    /\ now - file_cache[video_id].timestamp = TTL - 1

\* C9: with an entry in cache the forward is tried first and the blob-handle
\* send only after the forward failed; if either succeeds the call reports
\* delivered and cache is unchanged; the entry is removed, and the table
\* saved, exactly when both failed, and the call then goes on to file_cache.
BothFailedStep == pc[0] = "blob" /\ pc'[0] \in {"filesend", "status"}

C9_FallbackChain ==
    /\ [][(pc[0] = "idle" /\ pc'[0] # "idle" /\ video_id' \in DOMAIN cache)
            => pc'[0] = "forward"]_vars
    /\ [][(pc[0] # "blob" /\ pc'[0] = "blob")
            => (pc[0] = "forward" /\ stages' = <<ForwardFailed>>)]_vars
    /\ [][(pc[0] \in {"forward", "blob"} /\ outcome' = "delivery")
            => (pc'[0] = "idle" /\ cache' = cache /\ cache_json' = cache_json)]_vars
    /\ [][(\E id \in DOMAIN cache : id \notin DOMAIN cache') <=> BothFailedStep]_vars
    /\ [][BothFailedStep
            => /\ DOMAIN cache' = DOMAIN cache \ {video_id}
               /\ cache_json' = cache'
               /\ \/ pc'[0] = "filesend"
                  \/ stages' = <<ForwardFailed, BlobFailed, FileFailed>>]_vars

C9_Witness ==
    /\ pc[0] = "filesend"
    /\ stages = <<ForwardFailed, BlobFailed>>
    /\ video_id \notin DOMAIN cache

\* C10, as claimed: every ended resolution, failed ones too, has added one
\* to the counter, and a progress edit was started at every third.
Counted == {t \in Tasks : pc[t] \in {"ok", "failed", "notify"}}
EveryThird(n) == [i \in 1..(n \div 3) |-> 3 * i]

C10_Original ==
    pc[0] = "gather" =>
        /\ completed = Cardinality(Counted)
        /\ notices = EveryThird(Cardinality(Counted))

\* C10, amended: every resolution that ended in success has added one to the
\* counter under the lock, a failed one has added nothing, and a progress
\* edit was started exactly when the counter reached a multiple of 3.
Succeeded == {t \in Tasks : pc[t] \in {"ok", "notify"}}

C10_Amended ==
    pc[0] = "gather" =>
        /\ completed = Cardinality(Succeeded)
        /\ notices = EveryThird(completed)
        /\ lock <=> (\E t \in Tasks : pc[t] = "notify")
        /\ Cardinality({t \in Tasks : pc[t] = "notify"}) <= 1
        /\ {lock_waiters[i] : i \in DOMAIN lock_waiters}
               = {t \in Tasks : pc[t] = "lockwait"}

C10_Witness ==
    /\ pc[0] = "gather" /\ AllEnded
    /\ \E t \in Tasks : pc[t] = "failed"
    /\ completed = Cardinality(Succeeded) /\ completed >= 3
    /\ notices = <<3>>

\* C11, as claimed: in a playlist request a cached track for which
\* send_cached_track reports a miss goes on to the fetch.
C11_CachedSubsetFallsThrough ==
    [][(/\ mode = "playlist"
        /\ pc[0] \in {"sct", "blob", "filesend"}
        /\ outcome' = "miss")
         => pc'[0] \in {"status", "fetch"}]_vars

\* C12, as claimed: a failed single request has sent the error text once for
\* its key, and a batch has sent it once for each of its failed keys.
TimesAdvised(id) == Cardinality({i \in DOMAIN advised : advised[i] = id})

C12_FailureNotice ==
    /\ (mode = "single" /\ pc[0] = "idle" /\ outcome = "failed")
           => TimesAdvised(video_id) = 1
    /\ (mode = "playlist" /\ pc[0] = "delete")
           => \A t \in 1..Len(to_download) :
                  pc[t] = "failed" => TimesAdvised(to_download[t]) = 1

\* C13, as claimed: a lookup that finds an entry whose file exists and whose
\* age is not below the TTL removes the entry and deletes the file.
C13_LazyEvictionDeletesFile ==
    [][(/\ FileStageStep
        /\ video_id' \in DOMAIN file_cache
        /\ file_cache[video_id'].file_path \in disk
        /\ ~(now - file_cache[video_id'].timestamp < TTL))
         => /\ video_id' \notin DOMAIN file_cache'
            /\ file_cache[video_id'].file_path \notin disk']_vars

\* C14, as claimed: when the send of the local file fails the entry of the
\* key is removed from file_cache, a miss is reported and cache is not
\* written.
C14_LocalSendFailureEvicts ==
    [][(pc[0] = "filesend" /\ outcome' = "miss")
         => /\ video_id \notin DOMAIN file_cache'
            /\ cache' = cache]_vars

\* C15, as claimed: a call of download_and_send_track that fails, in the
\* fetch or in the send, reports the failure, leaves no file temp_<key>.mp3
\* and leaves both tables as they were.
TablesKept ==
    /\ cache' = cache /\ cache_json' = cache_json
    /\ file_cache' = file_cache /\ file_cache_json' = file_cache_json

FetchFailedStep == pc[0] \in {"fetch", "written", "send"} /\ pc'[0] = "errtext"

C15_Original ==
    [][FetchFailedStep
         => /\ outcome' = "failed"
            /\ TablesKept
            /\ disk' = disk \ {TempFile(video_id)}]_vars

\* C15, amended: a call of download_and_send_track that fails, in the fetch
\* or in the send, reports the failure and tries to remove the file
\* temp_<key>.mp3: the file is gone when os.remove succeeds and stays when
\* os.remove raises, which is swallowed; no other file is removed, and
\* neither the failure nor the steps of the call before it write either
\* table or its saved copy.
C15_Amended ==
    /\ [][FetchFailedStep
            => /\ outcome' = "failed"
               /\ TablesKept
               /\ disk' = IF rm = "ok" THEN disk \ {TempFile(video_id)} ELSE disk]_vars
    /\ [][(pc[0] \in {"fetch", "written"} /\ pc'[0] \in {"written", "send"}
                /\ pc'[0] # pc[0])
            => (TablesKept /\ TempFile(video_id) \in disk')]_vars
    /\ [][(pc[0] \in {"fetch", "written"} /\ pc'[0] # pc[0])
            => outcome' # "fetched"]_vars

C15_Witness ==
    /\ pc[0] = "errtext" /\ outcome = "failed"
    /\ rm = "fails"
    /\ TempFile(video_id) \in disk
    /\ video_id \notin DOMAIN file_cache

\* C16: in one resolve the stages run in the order cache, file_cache, fetch,
\* each after the one before it has missed, and a delivery ends the call:
\* at most one delivery in one resolve.
FetchWritten == Stage("fetch", TRUE)
CachesMissed == {<<FileFailed>>, <<ForwardFailed, BlobFailed, FileFailed>>}

C16_StageOrdering ==
    mode = "single" =>
        /\ pc[0] = "forward" => stages = <<>>
        /\ pc[0] = "blob" => stages = <<ForwardFailed>>
        /\ pc[0] = "filesend" => stages \in {<<>>, <<ForwardFailed, BlobFailed>>}
        /\ pc[0] \in {"status", "fetch", "written"} => stages \in CachesMissed
        /\ pc[0] = "send" => \E q \in CachesMissed : stages = Append(q, FetchWritten)
        /\ pc[0] \in {"forward", "blob", "filesend", "status", "fetch", "written", "send"}
               => sent = <<>>
        /\ Len(sent) <= 1
        /\ sent # <<>> => outcome \in Delivered

C16_Witness ==
    /\ mode = "single" /\ pc[0] = "send"
    /\ stages = <<ForwardFailed, BlobFailed, FileFailed, FetchWritten>>

\* C17: while the writes of the json files succeed, at every await the saved
\* copy of each table equals the table.
C17_SavedAfterMutation ==
    io = "ok" => (cache_json = cache /\ file_cache_json = file_cache)

C17_Witness ==
    /\ pc[0] = "filesend" /\ stages = <<ForwardFailed, BlobFailed>>
    /\ video_id \notin DOMAIN cache /\ cache_json = cache
    /\ video_id \in DOMAIN file_cache /\ file_cache_json = file_cache

\* C18: whatever a write of a json file leaves in the file, a fetch whose
\* send succeeded ends as delivered with both entries in the tables, a
\* failed fetch has written no table, a local send that succeeded has
\* written its entry to cache and the failure of both cached sends has
\* removed it; and no save raises: no table holds a title that json.dump
\* cannot encode, a send with such a title having raised before the save.
C18_PersistenceFailureTolerated ==
    /\ [][(pc[0] = "send" /\ outcome' = "fetched")
            => /\ pc'[0] = "delete"
               /\ sent' = <<video_id>>
               /\ video_id \in DOMAIN cache'
               /\ cache'[video_id] = CacheEntry(handle')
               /\ video_id \in DOMAIN file_cache'
               /\ file_cache'[video_id].timestamp = now]_vars
    /\ [][(pc[0] \in {"fetch", "written", "send"} /\ outcome' = "failed")
            => (cache' = cache /\ file_cache' = file_cache)]_vars
    /\ [][(pc[0] = "filesend" /\ outcome' = "local")
            => (video_id \in DOMAIN cache'
                /\ cache'[video_id] = CacheEntry(handle'))]_vars
    /\ [][BothFailedStep => video_id \notin DOMAIN cache']_vars
    /\ [](TRUE \notin save_raises(cache) /\ TRUE \notin save_raises(file_cache))

C18_Witness ==
    /\ pc[0] = "idle" /\ outcome = "fetched" /\ io # "ok"
    /\ video_id \in DOMAIN cache /\ video_id \notin DOMAIN cache_json
    /\ video_id \in DOMAIN file_cache /\ video_id \notin DOMAIN file_cache_json

\* A step of the sweeper: no handler, task or clock variable changes.
SweepStep ==
    /\ pc' = pc /\ now' = now
    /\ outcome' = outcome /\ mode' = mode /\ video_id' = video_id
Swept == {id \in DOMAIN file_cache : now - file_cache[id].timestamp > TTL}

\* C19, as claimed: a run of cleanup_old_files removes exactly the entries
\* of file_cache whose age is above the TTL and deletes their files.
C19_Original ==
    [][SweepStep
         => /\ DOMAIN file_cache' = DOMAIN file_cache \ Swept
            /\ disk' = disk \ {file_cache[id].file_path : id \in Swept}]_vars

\* C19, amended: a run of cleanup_old_files removes exactly the entries of
\* file_cache whose age is above the TTL and tries to delete their files: a
\* file is gone when os.remove succeeds and stays, its entry removed all the
\* same, when os.remove raises; the run writes neither cache nor its saved
\* copy, and writes file_cache.json not at all when no entry was removed
\* and once when one was: where writes succeed, the file then holds the
\* table.
C19_Amended ==
    [][SweepStep
         => /\ DOMAIN file_cache' = DOMAIN file_cache \ Swept
            /\ \A id \in DOMAIN file_cache' : file_cache'[id] = file_cache[id]
            /\ disk' = IF rm = "ok"
                         THEN disk \ {file_cache[id].file_path : id \in Swept}
                         ELSE disk
            /\ cache' = cache /\ cache_json' = cache_json
            /\ Swept = {} => file_cache_json' = file_cache_json
            /\ (Swept # {} /\ io = "ok") => file_cache_json' = file_cache']_vars

\* The last request fetched the key, and the sweeper has since removed its
\* entry and could not remove its file.
C19_Witness ==
    /\ pc[0] = "idle" /\ outcome = "fetched"
    /\ now > TTL /\ rm = "fails"
    /\ video_id \notin DOMAIN file_cache
    /\ TempFile(video_id) \in disk

\* C20, as claimed: with no file deleted from outside, every entry of
\* file_cache names a file that exists.
C20_EntriesHaveFiles ==
    \A id \in DOMAIN file_cache : file_cache[id].file_path \in disk

\* C21, as claimed: when a playlist request ends without a batch-level
\* error, the number of tracks its completion notice reports as sent is the
\* number of tracks delivered, from the caches and by the downloads.
C21_CompletionCount ==
    [][(/\ mode = "playlist"
        /\ pc[0] = "notice" /\ pc'[0] = "idle"
        /\ outcome' = "complete")
         => CompletionNotice =
                Len(sent') + Cardinality({t \in Tasks : pc[t] = "ok"})]_vars
====
